---- MODULE Spec2Model ----
(***************************************************************************)
(* Podcast chatbot: transcript chunking (md_parser.py), the search index   *)
(* wrapper and result deduplication (search_index.py) and retrieval fusion *)
(* (rag_pipeline.py).                                                      *)
(*                                                                         *)
(* Strings whose content is inspected (line text, timestamps, deep links)  *)
(* are sequences of non-empty tokens: the empty string is << >>, a         *)
(* whitespace character is the token " ".  Identifiers that are only       *)
(* compared for equality (video ids, section names, speakers) are TLA+     *)
(* strings, "" being the empty string.  Python dicts are records; a        *)
(* missing key is a field outside DOMAIN.                                  *)
(***************************************************************************)
EXTENDS Integers, Sequences, FiniteSets, TLC

VARIABLES
    pc,               \* position of the running program
    entry,            \* the function the run entered through
    transcript,       \* data["transcript"] of the document being chunked
    clip_lookup,      \* build_clip_lookup(data["quotableClips"])
    episode_meta,     \* the document's YAML data used as episode metadata
    item_idx,         \* chunk_by_headers: position of `for item in transcript`
    current_header,   \* chunk_by_headers locals
    current_lines,
    current_start,
    header_chunks,    \* chunk_by_headers: `chunks`
    window_seconds,   \* chunk_by_time_window arguments
    step_seconds,
    lines,            \* chunk_by_time_window locals
    total_secs,
    window_start,
    window_chunks,    \* chunk_by_time_window: `chunks`
    md_files,         \* load_all_episodes: the sorted .md files of the directory
    file_idx,         \* load_all_episodes: position of `for md_file in md_files`
    all_segments,     \* load_all_episodes locals
    failed,
    index,            \* the documents fitted into the minsearch index
    top_k,            \* PodcastRAG.top_k
    q_video_id,       \* the scope filter of the question ("" is None)
    q_season,
    index_calls,      \* the index.search() calls issued so far
    header_results,   \* PodcastRAG.retrieve locals
    window_results,
    merged,
    unique,
    retrieved,        \* value returned by retrieve
    prompt_chunks,    \* the chunks ask() handed to build_prompt
    generate_calls,   \* number of calls of generate()
    answer,           \* value returned by ask
    d_results,        \* deduplicate_results: the argument `results`
    d_min_gap,        \* deduplicate_results: the argument `min_gap_seconds`
    d_unique,         \* value returned by the first call
    d_again,          \* value returned by the call on the first call's output
    quotable_clips,   \* build_clip_lookup: the argument `quotable_clips`
    t_seconds,        \* seconds_to_timestamp: the argument `seconds`
    t_timestamp,      \* value returned by seconds_to_timestamp
    episodes_dir_exists, \* load_all_episodes: root.exists()
    load_return,      \* the values load_all_episodes returned, as a tuple
    build_index_calls, \* the segment lists build_index was called with
    stdin,            \* the lines the terminal will deliver to input()
    stdin_pos,        \* position of the next line input() reads
    video_id_filter,  \* chat_loop locals ("" is None)
    debug_mode

dedupVars == <<d_results, d_min_gap, d_unique, d_again>>

docVars == <<transcript, clip_lookup, episode_meta>>

headerVars ==
    <<item_idx, current_header, current_lines, current_start, header_chunks>>

windowVars ==
    <<window_seconds, step_seconds, lines, total_secs, window_start,
      window_chunks>>

loadVars == <<md_files, file_idx, all_segments, failed>>

ragVars == <<index, top_k>>

askVars ==
    <<q_video_id, q_season, index_calls, header_results, window_results,
      merged, unique, retrieved, prompt_chunks, generate_calls, answer>>

pureVars == <<quotable_clips, t_seconds, t_timestamp>>

startVars == <<episodes_dir_exists, load_return, build_index_calls>>

chatVars == <<stdin, stdin_pos, video_id_filter, debug_mode>>

vars == <<pc, entry, loadVars, docVars, headerVars, windowVars, ragVars,
          askVars, dedupVars, pureVars, startVars, chatVars>>

-----------------------------------------------------------------------------
(* The values of the locals of a function that has not been called         *)

IdleDoc ==
    /\ transcript = << >>
    /\ clip_lookup = << >>
    /\ episode_meta = << >>

IdleHeaders ==
    /\ item_idx = 1
    /\ current_header = "Introduction"
    /\ current_lines = << >>
    /\ current_start = 0
    /\ header_chunks = << >>

IdleWindows ==
    /\ lines = << >>
    /\ total_secs = 0
    /\ window_start = 0
    /\ window_chunks = << >>

DefaultWindowArgs ==
    /\ window_seconds = 60
    /\ step_seconds = 30

IdleAsk ==
    /\ q_video_id = ""
    /\ q_season = ""
    /\ index_calls = << >>
    /\ header_results = << >>
    /\ window_results = << >>
    /\ merged = << >>
    /\ unique = << >>
    /\ retrieved = << >>
    /\ prompt_chunks = << >>
    /\ generate_calls = 0
    /\ answer = "none"

IdleLoad ==
    /\ md_files = << >>
    /\ file_idx = 1
    /\ all_segments = << >>
    /\ failed = << >>

IdleRag ==
    /\ index = << >>
    /\ top_k = 5

IdleDedup ==
    /\ d_results = << >>
    /\ d_min_gap = 30
    /\ d_unique = << >>
    /\ d_again = << >>

IdlePure ==
    /\ quotable_clips = << >>
    /\ t_seconds = 0
    /\ t_timestamp = << >>

IdleStart ==
    /\ episodes_dir_exists = TRUE
    /\ load_return = << >>
    /\ build_index_calls = << >>

IdleChat ==
    /\ stdin = << >>
    /\ stdin_pos = 1
    /\ video_id_filter = ""
    /\ debug_mode = FALSE

-----------------------------------------------------------------------------
(* Generic helpers                                                         *)

\* dict.get(key, default)
Get(r, key, default) == IF key \in DOMAIN r THEN r[key] ELSE default

Abs(n) == IF n < 0 THEN -n ELSE n

Min(a, b) == IF a <= b THEN a ELSE b

Max(a, b) == IF a >= b THEN a ELSE b

\* python slice s[n:] for n >= 0
SliceFrom(s, n) == SubSeq(s, n + 1, Len(s))

\* python slice s[:n] for any integer n (a negative n counts from the end)
SliceTo(s, n) ==
    IF n >= 0 THEN SubSeq(s, 1, Min(n, Len(s)))
    ELSE SubSeq(s, 1, Max(Len(s) + n, 0))

\* s[i] for the positions i in K, in the order of s
RECURSIVE RestrictFrom(_, _, _)
RestrictFrom(s, K, i) ==
    IF i > Len(s) THEN << >>
    ELSE (IF i \in K THEN <<s[i]>> ELSE << >>) \o RestrictFrom(s, K, i + 1)

\* all sequences over S of length at most n
SeqsUpTo(S, n) == UNION {[1..k -> S] : k \in 0..n}

\* all duplicate-free sequences over S of length at most n
InjSeqsUpTo(S, n) ==
    {s \in SeqsUpTo(S, n) : \A i, j \in 1..Len(s) : i # j => s[i] # s[j]}

-----------------------------------------------------------------------------
(* search_index.py: deduplicate_results                                    *)

\* the (video_id, start_seconds) pair the loop reads from a result
ResultKey(r) == <<Get(r, "video_id", ""), Get(r, "start_seconds", 0)>>

\* a comparison that forgets abs(): only later starts count as near
is_duplicate_signed(seen, vid, start, min_gap_seconds) ==
    \E k \in 1..Len(seen) :
        seen[k][1] = vid /\ seen[k][2] - start < min_gap_seconds

\* the any(...) over `seen`
is_duplicate(seen, vid, start, min_gap_seconds) ==
    \E k \in 1..Len(seen) :
        seen[k][1] = vid /\ Abs(seen[k][2] - start) < min_gap_seconds

\* a kept result put in front of the list instead of at its end
unique_prepend(kept, r) == <<r>> \o kept

\* unique.append(r)
unique_append(kept, r) == Append(kept, r)

\* an iteration that compares with the previously examined result only
DedupLoopBodyLastSeen(acc, r, min_gap_seconds) ==
    LET vid   == ResultKey(r)[1]
        start == ResultKey(r)[2]
    IN  [seen   |-> <<(<<vid, start>>)>>,
         unique |-> IF ~is_duplicate(acc.seen, vid, start, min_gap_seconds)
                    THEN unique_append(acc.unique, r)
                    ELSE acc.unique]

\* one iteration of `for r in results`; acc is the pair of locals seen, unique
DedupLoopBody(acc, r, min_gap_seconds) ==
    LET vid   == ResultKey(r)[1]
        start == ResultKey(r)[2]
    IN  IF ~is_duplicate(acc.seen, vid, start, min_gap_seconds)
        THEN [seen   |-> Append(acc.seen, <<vid, start>>),
              unique |-> unique_append(acc.unique, r)]
        ELSE acc

RECURSIVE DedupLoop(_, _, _, _)
DedupLoop(acc, results, i, min_gap_seconds) ==
    IF i > Len(results) THEN acc
    ELSE DedupLoop(DedupLoopBody(acc, results[i], min_gap_seconds),
                   results, i + 1, min_gap_seconds)

deduplicate_results(results, min_gap_seconds) ==
    DedupLoop([seen |-> << >>, unique |-> << >>], results, 1,
              min_gap_seconds).unique

-----------------------------------------------------------------------------
(* md_parser.py: strings, timestamps, clip lookup                          *)

IsSpace(tok) == tok = " "

RECURSIVE lstrip(_)
lstrip(s) ==
    IF s = << >> THEN << >>
    ELSE IF IsSpace(Head(s)) THEN lstrip(Tail(s)) ELSE s

RECURSIVE rstrip(_)
rstrip(s) ==
    IF s = << >> THEN << >>
    ELSE IF IsSpace(s[Len(s)]) THEN rstrip(SubSeq(s, 1, Len(s) - 1)) ELSE s

\* str.strip()
strip(s) == rstrip(lstrip(s))

\* sep.join(parts)
RECURSIVE Join(_, _)
Join(parts, sep) ==
    IF parts = << >> THEN << >>
    ELSE IF Len(parts) = 1 THEN parts[1]
    ELSE parts[1] \o sep \o Join(Tail(parts), sep)

\* an identifier interpolated into an f-string
Tok(id) == IF id = "" THEN << >> ELSE <<id>>

\* a format without the zero padding
Pad2NoPad(n) == <<ToString(n)>>

\* f"{secs:02d}"
Pad2(n) == IF 0 <= n /\ n < 10 THEN <<"0", ToString(n)>> ELSE <<ToString(n)>>

seconds_to_timestamp(seconds) ==
    LET minutes == seconds \div 60
        secs    == seconds % 60
    IN  <<ToString(minutes), ":">> \o Pad2(secs)

\* a dict write that keeps the value a key already has
DictSetDefault(d, k, v) ==
    [x \in (DOMAIN d) \cup {k} |-> IF x \in DOMAIN d THEN d[x] ELSE v]

\* d[k] = v on a dict
DictSet(d, k, v) == [x \in (DOMAIN d) \cup {k} |-> IF x = k THEN v ELSE d[x]]

\* A YAML null: the keys of a record whose value is None are listed in its
\* field `nulls`
IsNull(r, key) == key \in Get(r, "nulls", {})

\* int(None) in seconds_to_timestamp raises TypeError
ClipRaises(clip) == IsNull(clip, "startOffset")

\* the value stored for one clip
ClipEntry(clip) ==
    [start_seconds |-> Get(clip, "startOffset", 0),
     end_seconds   |-> Get(clip, "endOffset", 0),
     deep_link     |-> Get(clip, "url", << >>),
     timestamp     |-> seconds_to_timestamp(Get(clip, "startOffset", 0))]

RECURSIVE ClipLoop(_, _, _)
ClipLoop(lookup, clips, i) ==
    IF i > Len(clips) THEN lookup
    ELSE ClipLoop(DictSet(lookup, Get(clips[i], "name", ""),
                          ClipEntry(clips[i])),
                  clips, i + 1)

\* build_clip_lookup raises on the first clip whose entry cannot be built
ClipLookupRaises(clips) == \E i \in 1..Len(clips) : ClipRaises(clips[i])

\* the lookup build_clip_lookup returns when no clip raises
build_clip_lookup(clips) == ClipLoop(<< >>, clips, 1)

\* a call of seconds_to_timestamp
CallTimestamp ==
    /\ pc = "timestamp"
    /\ t_timestamp' = seconds_to_timestamp(t_seconds)
    /\ pc' = "done"
    /\ UNCHANGED <<entry, loadVars, docVars, headerVars, windowVars, ragVars,
                   askVars, dedupVars, quotable_clips, t_seconds, startVars,
                   chatVars>>

\* a call of build_clip_lookup
CallClipLookup ==
    /\ pc = "clips"
    /\ IF ClipLookupRaises(quotable_clips)
       THEN /\ pc' = "raised"
            /\ UNCHANGED clip_lookup
       ELSE /\ clip_lookup' = build_clip_lookup(quotable_clips)
            /\ pc' = "done"
    /\ UNCHANGED <<entry, loadVars, transcript, episode_meta, headerVars,
                   windowVars, ragVars, askVars, dedupVars, pureVars, startVars,
                   chatVars>>

-----------------------------------------------------------------------------
(* Inputs of the timestamp and the clip-lookup specifications              *)

\* the token sequence of a string as one string
RECURSIVE Flat(_)
Flat(s) == IF s = << >> THEN "" ELSE Head(s) \o Flat(Tail(s))

\* n in 0..99 written with exactly two decimal digits
TwoDigits(n) == ToString(n \div 10) \o ToString(n % 10)

MaxSeconds == 3725

MaxNegSeconds == 65

InitTimestamp ==
    /\ pc = "timestamp"
    /\ entry = "seconds_to_timestamp"
    /\ t_seconds \in (-MaxNegSeconds)..MaxSeconds
    /\ t_timestamp = << >>
    /\ quotable_clips = << >>
    /\ IdleDoc /\ IdleHeaders /\ IdleWindows /\ DefaultWindowArgs /\ IdleDedup
    /\ IdleLoad /\ IdleRag /\ IdleAsk /\ IdleStart /\ IdleChat

NextTimestamp == CallTimestamp

SpecTimestamp == InitTimestamp /\ [][NextTimestamp]_vars

\* C15: for every non-negative integer s, seconds_to_timestamp(s) is the
\* string of floor(s/60), a colon, and s mod 60 zero-padded to exactly two
\* digits; 150 gives "2:30", 0 gives "0:00", and minutes are not wrapped at 60
\* (3725 gives "62:05").
C15_MinutesColonPaddedSeconds ==
    (pc = "done" /\ entry = "seconds_to_timestamp" /\ t_seconds >= 0) =>
        /\ Flat(t_timestamp) =
               ToString(t_seconds \div 60) \o ":" \o TwoDigits(t_seconds % 60)
        /\ t_seconds = 150 => Flat(t_timestamp) = "2:30"
        /\ t_seconds = 0 => Flat(t_timestamp) = "0:00"
        /\ t_seconds = 3725 => Flat(t_timestamp) = "62:05"

\* more than an hour was formatted, with seconds that need the padding
C15_Witness ==
    /\ pc = "done" /\ entry = "seconds_to_timestamp"
    /\ t_seconds = 3725
    /\ Flat(t_timestamp) = "62:05"

MaxClips == 3

ClipNames == {"Intro", "Topic"}

ClipOffsets == {-65, -5, 0, 75}

\* clips with and without name, startOffset, endOffset and url, and one whose
\* startOffset is null
ClipSpecClips ==
    {[name |-> n, startOffset |-> o] : n \in ClipNames, o \in ClipOffsets}
        \cup {[name |-> n] : n \in ClipNames}
        \cup {[name |-> "Topic", nulls |-> {"startOffset"}],
              [startOffset |-> 75, endOffset |-> 120],
              [name |-> "Topic", startOffset |-> 2139, endOffset |-> 2397,
               url |-> <<"https://www.youtube.com/watch?v=V1&t=2139">>]}

InitClips ==
    /\ pc = "clips"
    /\ entry = "build_clip_lookup"
    /\ quotable_clips \in SeqsUpTo(ClipSpecClips, MaxClips)
    /\ t_seconds = 0
    /\ t_timestamp = << >>
    /\ IdleDoc /\ IdleHeaders /\ IdleWindows /\ DefaultWindowArgs /\ IdleDedup
    /\ IdleLoad /\ IdleRag /\ IdleAsk /\ IdleStart /\ IdleChat

NextClips == CallClipLookup

SpecClips == InitClips /\ [][NextClips]_vars

ClipName(i) == Get(quotable_clips[i], "name", "")

\* the positions of the clips that are the last of their name
LastOfName ==
    {i \in 1..Len(quotable_clips) :
        \A j \in (i + 1)..Len(quotable_clips) : ClipName(j) # ClipName(i)}

\* the clip's startOffset is absent, null or negative
NoUsableOffset(clip) ==
    \/ "startOffset" \notin DOMAIN clip
    \/ clip.startOffset < 0

\* C14: seconds_to_timestamp and the clip-lookup timestamp treat negative or
\* missing second values as 0: for a clip whose startOffset is negative, absent
\* or null the formatted timestamp of its lookup entry is "0:00".
C14_NegativeOrMissingIsZero ==
    (pc \in {"done", "raised"} /\ entry = "build_clip_lookup") =>
        \A i \in LastOfName :
            NoUsableOffset(quotable_clips[i]) =>
                /\ pc = "done"
                /\ ClipName(i) \in DOMAIN clip_lookup
                /\ Flat(clip_lookup[ClipName(i)].timestamp) = "0:00"

\* C20: build_clip_lookup is last-write-wins on duplicate clip names: the
\* entry stored under a name is built from the last clip in the list with that
\* name, no error is raised on duplicate names, and the lookup has exactly one
\* key per distinct clip name.
C20_LastClipWins ==
    (entry = "build_clip_lookup" /\ pc # "clips") =>
        /\ pc = "raised" =>
               \E i \in 1..Len(quotable_clips) :
                   IsNull(quotable_clips[i], "startOffset")
        /\ pc = "done" =>
               /\ DOMAIN clip_lookup =
                      {ClipName(i) : i \in 1..Len(quotable_clips)}
               /\ \A i \in LastOfName :
                      LET e == clip_lookup[ClipName(i)]
                          c == quotable_clips[i]
                      IN  /\ e.start_seconds = Get(c, "startOffset", 0)
                          /\ e.end_seconds = Get(c, "endOffset", 0)
                          /\ e.deep_link = Get(c, "url", << >>)
                          /\ e.timestamp =
                                 seconds_to_timestamp(Get(c, "startOffset", 0))

\* two clips of one name with different offsets were stored under one key
\* holding the later clip's offset
C20_Witness ==
    /\ pc = "done" /\ entry = "build_clip_lookup"
    /\ \E i, j \in 1..Len(quotable_clips) :
           /\ i < j /\ j \in LastOfName
           /\ ClipName(i) = ClipName(j)
           /\ Get(quotable_clips[i], "startOffset", 0)
                  # Get(quotable_clips[j], "startOffset", 0)
           /\ clip_lookup[ClipName(j)].start_seconds
                  = Get(quotable_clips[j], "startOffset", 0)
    /\ Cardinality(DOMAIN clip_lookup) < Len(quotable_clips)

-----------------------------------------------------------------------------
(* md_parser.py: chunk_by_headers                                          *)

\* the speakers of the corpus in sorted() order
SpeakerOrder == <<"Alexey", "Stefan">>

\* ", ".join(sorted(speakers_seen))
JoinSpeakers(speakers_seen) ==
    Join([i \in 1..Len(SelectSeq(SpeakerOrder, LAMBDA n : n \in speakers_seen))
             |-> <<SelectSeq(SpeakerOrder, LAMBDA n : n \in speakers_seen)[i]>>],
         <<",", " ">>)

\* the text part of one transcript entry: "speaker: line" or the bare line
TextPart(e) ==
    LET speaker == Get(e, "who", "")
        line    == strip(Get(e, "line", << >>))
    IN  IF speaker # "" THEN <<speaker, ":", " ">> \o line ELSE line

\* " ".join(text_parts) over a list of transcript entries
CombinedText(entries) ==
    Join([i \in 1..Len(entries) |-> TextPart(entries[i])], <<" ">>)

SpeakersSeen(entries) ==
    {Get(entries[i], "who", "") : i \in 1..Len(entries)} \ {""}

\* episode_meta.get("ids", {}).get("youtube", "")
MetaVideoId(meta) == Get(Get(meta, "ids", << >>), "youtube", "")

\* the episode-level fields every chunk carries
EpisodeFields(meta) ==
    [episode_title |-> Get(meta, "title", ""),
     short_title   |-> Get(meta, "short", ""),
     video_id      |-> MetaVideoId(meta),
     season        |-> Get(meta, "season", ""),
     episode_num   |-> Get(meta, "episode", "")]

\* f"https://www.youtube.com/watch?v={video_id}&t={start_sec}"
WatchLink(video_id, start_sec) ==
    <<"https://www.youtube.com/watch?v=">> \o Tok(video_id)
        \o <<"&t=", ToString(start_sec)>>

\* a chunk dict
Chunk(type, section, entries, meta, start_sec, timestamp, deep_link) ==
    [chunk_type    |-> type,
     section       |-> section,
     text          |-> CombinedText(entries),
     speakers      |-> JoinSpeakers(SpeakersSeen(entries)),
     episode_title |-> EpisodeFields(meta).episode_title,
     short_title   |-> EpisodeFields(meta).short_title,
     video_id      |-> EpisodeFields(meta).video_id,
     season        |-> EpisodeFields(meta).season,
     episode_num   |-> EpisodeFields(meta).episode_num,
     start_seconds |-> start_sec,
     timestamp     |-> timestamp,
     deep_link     |-> deep_link]

\* a lookup that never finds the label
LookupClipNever(lookup, header) == << >>

\* clip_lookup.get(current_header, {})
LookupClip(lookup, header) == Get(lookup, header, << >>)

\* a flush without the `if not current_lines: return` guard
flush_chunk_unguarded(header, entries, start, lookup, meta) ==
    IF DOMAIN LookupClip(lookup, header) # {}
    THEN <<Chunk("header", Tok(header), entries, meta,
                 LookupClip(lookup, header).start_seconds,
                 LookupClip(lookup, header).timestamp,
                 LookupClip(lookup, header).deep_link)>>
    ELSE <<Chunk("header", Tok(header), entries, meta, start,
                 seconds_to_timestamp(start),
                 WatchLink(MetaVideoId(meta), start))>>

\* flush_chunk(): the chunks it appends (none or one)
flush_chunk(header, entries, start, lookup, meta) ==
    IF entries = << >> THEN << >>
    ELSE IF DOMAIN LookupClip(lookup, header) # {}
         THEN <<Chunk("header", Tok(header), entries, meta,
                      LookupClip(lookup, header).start_seconds,
                      LookupClip(lookup, header).timestamp,
                      LookupClip(lookup, header).deep_link)>>
         ELSE <<Chunk("header", Tok(header), entries, meta, start,
                      seconds_to_timestamp(start),
                      WatchLink(MetaVideoId(meta), start))>>

\* one iteration of `for item in transcript`
HeaderItem ==
    /\ pc = "headers"
    /\ item_idx <= Len(transcript)
    /\ LET item == transcript[item_idx]
       IN  IF "header" \in DOMAIN item
           THEN /\ header_chunks' = header_chunks \o
                       flush_chunk(current_header, current_lines,
                                   current_start, clip_lookup, episode_meta)
                /\ current_header' = item.header
                /\ current_lines' = << >>
                /\ current_start' =
                       Get(Get(clip_lookup, item.header, << >>),
                           "start_seconds", 0)
           ELSE IF "line" \in DOMAIN item
           THEN /\ current_lines' = Append(current_lines, item)
                /\ UNCHANGED <<header_chunks, current_header, current_start>>
           ELSE UNCHANGED <<header_chunks, current_header, current_lines,
                            current_start>>
    /\ item_idx' = item_idx + 1
    /\ UNCHANGED <<pc, entry, loadVars, docVars, windowVars, ragVars, askVars,
                   dedupVars, pureVars,
                   startVars,
                   chatVars>>

\* the flush after the loop and the return
HeaderReturn ==
    /\ pc = "headers"
    /\ item_idx > Len(transcript)
    /\ header_chunks' = header_chunks \o
           flush_chunk(current_header, current_lines, current_start,
                       clip_lookup, episode_meta)
    /\ pc' = IF entry = "chunk_by_headers" THEN "done" ELSE "windows"
    /\ UNCHANGED <<entry, loadVars, docVars, item_idx, current_header,
                   current_lines, current_start, windowVars, ragVars, askVars, dedupVars, pureVars,
                   startVars,
                   chatVars>>

-----------------------------------------------------------------------------
(* Documents of the header-chunking specification                          *)

MaxItems == 3

HeaderNames == {"Intro", "Topic"}

LineTexts == {<< >>, <<" ">>, <<" ", "hi">>}

HeaderSpecItems ==
    {[header |-> h] : h \in HeaderNames}
        \cup {[line |-> t, sec |-> 5] : t \in LineTexts}
        \cup {[line |-> t, sec |-> 5, who |-> "Stefan"] : t \in LineTexts}
        \cup {[time |-> <<"0", ":", "05">>]}

ClipLists ==
    {<< >>,
     <<[name |-> "Topic", startOffset |-> 75, endOffset |-> 120,
        url |-> <<"https://www.youtube.com/watch?v=V1&t=75">>]>>,
     <<[name |-> "Topic", startOffset |-> 75, endOffset |-> 120]>>,
     <<[name |-> "Topic", startOffset |-> 75, endOffset |-> 120,
        url |-> <<"https://www.youtube.com/watch?v=V1&t=75">>],
       [name |-> "introduction", startOffset |-> 30, endOffset |-> 60,
        url |-> <<"https://www.youtube.com/watch?v=V1&t=30">>]>>}

Metas ==
    {[title |-> "AI in Healthcare", short |-> "ML Healthcare",
      ids |-> [youtube |-> "V1"], season |-> "8", episode |-> "4"],
     [title |-> "Untitled"]}

InitHeaders ==
    /\ pc = "headers"
    /\ entry = "chunk_by_headers"
    /\ transcript \in SeqsUpTo(HeaderSpecItems, MaxItems)
    /\ \E clips \in ClipLists : clip_lookup = build_clip_lookup(clips)
    /\ episode_meta \in Metas
    /\ IdleHeaders /\ IdleWindows /\ DefaultWindowArgs /\ IdleDedup
    /\ IdleLoad /\ IdleRag /\ IdleAsk /\ IdlePure /\ IdleStart /\ IdleChat

NextHeaders == HeaderItem \/ HeaderReturn

SpecHeaders == InitHeaders /\ [][NextHeaders]_vars

\* C4: chunk_by_headers never emits an excerpt whose text is empty, whatever
\* the document, including one whose spoken lines have empty or whitespace-only
\* text and no speaker.
C4_HeaderTextNeverEmpty ==
    \A i \in 1..Len(header_chunks) : header_chunks[i].text # << >>

\* the `sec` of the first spoken line of every section that has spoken lines,
\* in document order (open: the current section already has a spoken line)
RECURSIVE SectionFirstSecs(_, _, _)
SectionFirstSecs(items, i, open) ==
    IF i > Len(items) THEN << >>
    ELSE IF "header" \in DOMAIN items[i]
         THEN SectionFirstSecs(items, i + 1, FALSE)
    ELSE IF "line" \in DOMAIN items[i] /\ ~open
         THEN <<Get(items[i], "sec", 0)>> \o SectionFirstSecs(items, i + 1, TRUE)
    ELSE SectionFirstSecs(items, i + 1, open)

HasClipEntry(section) == \E h \in DOMAIN clip_lookup : Tok(h) = section

\* C11: when a section label has no clip-lookup entry, the header excerpt's
\* start_seconds is the `sec` of the first spoken line accumulated in that
\* section, and its timestamp and deep link are synthesized from that same
\* offset and the base video URL.
C11_FallbackStartIsFirstLine ==
    pc = "done" =>
        /\ Len(header_chunks) = Len(SectionFirstSecs(transcript, 1, FALSE))
        /\ \A i \in 1..Len(header_chunks) :
               LET first == SectionFirstSecs(transcript, 1, FALSE)[i]
               IN  ~HasClipEntry(header_chunks[i].section) =>
                       /\ header_chunks[i].start_seconds = first
                       /\ header_chunks[i].timestamp = seconds_to_timestamp(first)
                       /\ header_chunks[i].deep_link =
                              WatchLink(MetaVideoId(episode_meta), first)

\* the positions that open a section: 0 for the default "Introduction" and
\* every header entry
SectionOpeners ==
    {0} \cup {p \in 1..Len(transcript) : "header" \in DOMAIN transcript[p]}

\* the spoken lines between opener p and the next header
SectionLines(p) ==
    LET later == {q \in SectionOpeners : q > p}
        last  == IF later = {} THEN Len(transcript)
                 ELSE (CHOOSE q \in later : \A r \in later : q <= r) - 1
    IN  SelectSeq(SubSeq(transcript, p + 1, last),
                  LAMBDA item : "line" \in DOMAIN item)

SectionLabel(p) == IF p = 0 THEN "Introduction" ELSE transcript[p].header

\* the openers of the sections that hold at least one spoken line
SpokenSections == {p \in SectionOpeners : SectionLines(p) # << >>}

\* the i-th spoken section in document order
SpokenSection(i) ==
    CHOOSE p \in SpokenSections :
        Cardinality({q \in SpokenSections : q < p}) = i - 1

\* C22: chunk_by_headers emits exactly one excerpt per section that contains
\* at least one spoken line, in document order, each labelled with its
\* enclosing header and containing exactly that section's lines in order; a
\* header followed by zero spoken lines produces no excerpt, and an excerpt
\* labelled "Introduction" by default is produced only when spoken lines
\* precede the first header.
C22_OneExcerptPerSpokenSection ==
    pc = "done" =>
        /\ Len(header_chunks) = Cardinality(SpokenSections)
        /\ \A i \in 1..Len(header_chunks) :
               /\ header_chunks[i].chunk_type = "header"
               /\ header_chunks[i].section = <<SectionLabel(SpokenSection(i))>>
               /\ header_chunks[i].text =
                      CombinedText(SectionLines(SpokenSection(i)))

\* lines before the first header, a header without lines and a header with a
\* line: two excerpts
C22_Witness ==
    /\ pc = "done"
    /\ Len(transcript) = 3
    /\ "line" \in DOMAIN transcript[1]
    /\ "header" \in DOMAIN transcript[2]
    /\ "line" \in DOMAIN transcript[3]
    /\ Len(header_chunks) = 2
    /\ header_chunks[1].section = <<"Introduction">>

\* C24: when the current section label exactly equals a clip name of the clip
\* lookup, the excerpt takes its start_seconds, deep link and timestamp from
\* that clip, not from the section's lines; a label that differs from every
\* clip name uses the computed fallback link and timestamp, and no error is
\* raised.
C24_ExactClipMatchOrFallback ==
    /\ pc \in {"headers", "done"}
    /\ pc = "done" =>
           \A i \in 1..Len(header_chunks) :
               LET c == header_chunks[i]
                   L == SectionLabel(SpokenSection(i))
               IN  IF L \in DOMAIN clip_lookup
                   THEN /\ c.start_seconds = clip_lookup[L].start_seconds
                        /\ c.deep_link = clip_lookup[L].deep_link
                        /\ c.timestamp = clip_lookup[L].timestamp
                   ELSE /\ c.deep_link =
                               WatchLink(MetaVideoId(episode_meta),
                                         c.start_seconds)
                        /\ c.timestamp = seconds_to_timestamp(c.start_seconds)
                        /\ \A n \in DOMAIN clip_lookup :
                               c.deep_link # clip_lookup[n].deep_link

\* the section "Topic" took the clip's offset 75 although its line is at
\* second 5, and the section "Introduction" fell back next to a clip named
\* "introduction"
C24_Witness ==
    /\ pc = "done"
    /\ DOMAIN clip_lookup = {"Topic", "introduction"}
    /\ \E i, j \in 1..Len(header_chunks) :
           /\ header_chunks[i].section = <<"Topic">>
           /\ header_chunks[i].start_seconds = 75
           /\ header_chunks[j].section = <<"Introduction">>
           /\ header_chunks[j].start_seconds # 30

-----------------------------------------------------------------------------
(* md_parser.py: chunk_by_time_window                                      *)

\* a loop that stops one window early
WindowLoopCondStrict(start, total) == start < total

\* the condition of `while window_start <= total_secs`
WindowLoopCond(start, total) == start <= total

\* a membership test without the lower end of the window
InWindowNoLower(l, start, window) == Get(l, "sec", 0) < start + window

\* window_start <= l.get("sec", 0) < window_end
InWindow(l, start, window) ==
    start <= Get(l, "sec", 0) /\ Get(l, "sec", 0) < start + window

\* the list comprehension building window_lines
WindowLines(ls, start, window) ==
    SelectSeq(ls, LAMBDA l : InWindow(l, start, window))

\* the chunk appended for a window, if it has lines
WindowChunk(ls, start, window, meta) ==
    IF WindowLines(ls, start, window) = << >> THEN << >>
    ELSE <<Chunk("window", <<"~">> \o seconds_to_timestamp(start),
                 WindowLines(ls, start, window), meta, start,
                 seconds_to_timestamp(start),
                 WatchLink(MetaVideoId(meta), start))>>

\* a collection that keeps the section markers
SpokenOfAll(items) == items

\* lines = [item for item in transcript if "line" in item]
SpokenOf(items) == SelectSeq(items, LAMBDA item : "line" \in DOMAIN item)

\* the end of the episode taken from the first line
TotalSecsFirst(ls) == Get(ls[1], "sec", 0)

\* total_secs = lines[-1].get("sec", 0)
TotalSecs(ls) == Get(ls[Len(ls)], "sec", 0)

\* a slide of two steps
NextWindowStartDouble(start, step) == start + 2 * step

\* window_start += step_seconds
NextWindowStart(start, step) == start + step

\* the while loop from window start `start` on: the chunks it appends
RECURSIVE WindowLoop(_, _, _, _, _, _)
WindowLoop(ls, start, total, window, step, meta) ==
    IF WindowLoopCond(start, total)
    THEN WindowChunk(ls, start, window, meta)
             \o WindowLoop(ls, NextWindowStart(start, step), total, window,
                           step, meta)
    ELSE << >>

\* chunk_by_time_window as a function of its arguments
chunk_by_time_window(items, meta, window, step) ==
    IF SpokenOf(items) = << >> THEN << >>
    ELSE WindowLoop(SpokenOf(items), 0, TotalSecs(SpokenOf(items)), window,
                    step, meta)

\* where the run continues when chunk_by_time_window returns
AfterWindows == IF entry = "chunk_by_time_window" THEN "done" ELSE "parsed"

\* the start of the function up to the loop, or the early return
WindowEnter ==
    /\ pc = "windows"
    /\ LET ls == SpokenOf(transcript)
       IN  /\ lines' = ls
           /\ window_chunks' = << >>
           /\ window_start' = 0
           /\ IF ls = << >>
              THEN /\ pc' = AfterWindows
                   /\ UNCHANGED total_secs
              ELSE /\ total_secs' = TotalSecs(ls)
                   /\ pc' = "window_loop"
    /\ UNCHANGED <<entry, loadVars, docVars, headerVars, window_seconds,
                   step_seconds, ragVars, askVars, dedupVars, pureVars,
                   startVars,
                   chatVars>>

\* one iteration of the while loop
WindowIter ==
    /\ pc = "window_loop"
    /\ WindowLoopCond(window_start, total_secs)
    /\ window_chunks' = window_chunks \o
           WindowChunk(lines, window_start, window_seconds, episode_meta)
    /\ window_start' = NextWindowStart(window_start, step_seconds)
    /\ UNCHANGED <<pc, entry, loadVars, docVars, headerVars, window_seconds,
                   step_seconds, lines, total_secs, ragVars, askVars,
                   dedupVars, pureVars,
                   startVars,
                   chatVars>>

WindowReturn ==
    /\ pc = "window_loop"
    /\ ~WindowLoopCond(window_start, total_secs)
    /\ pc' = AfterWindows
    /\ UNCHANGED <<entry, loadVars, docVars, headerVars, windowVars, ragVars,
                   askVars, dedupVars, pureVars,
                   startVars,
                   chatVars>>

-----------------------------------------------------------------------------
(* Documents of the window-chunking specification                          *)

MaxWindowItems == 4

WindowSecs == {0, 10, 40, 70, 100}

\* the line spoken at second t has the text "t"
WindowSpecItems ==
    {[line |-> <<ToString(t)>>, sec |-> t] : t \in WindowSecs}
        \cup {[line |-> << >>, sec |-> 40, who |-> "Alexey"],
              [line |-> <<"hi">>],
              [header |-> "Topic"]}

\* <<window_seconds, step_seconds>>; the first pair is parse_md_file's
WindowArgs == {<<60, 30>>, <<20, 10>>, <<30, 60>>}

InitWindows ==
    /\ pc = "windows"
    /\ entry = "chunk_by_time_window"
    /\ transcript \in SeqsUpTo(WindowSpecItems, MaxWindowItems)
    /\ clip_lookup = << >>
    /\ episode_meta = [title |-> "AI in Healthcare", ids |-> [youtube |-> "V1"]]
    /\ \E a \in WindowArgs : window_seconds = a[1] /\ step_seconds = a[2]
    /\ IdleHeaders /\ IdleWindows /\ IdleDedup /\ IdleLoad /\ IdleRag /\ IdleAsk
    /\ IdlePure /\ IdleStart /\ IdleChat

NextWindows == WindowEnter \/ WindowIter \/ WindowReturn

SpecWindows == InitWindows /\ [][NextWindows]_vars

\* the spoken lines of the document and their timestamps
SpokenLines == SelectSeq(transcript, LAMBDA item : "line" \in DOMAIN item)

SecOf(l) == Get(l, "sec", 0)

\* the emitted window excerpts that start at w
ChunksAt(w) == {i \in 1..Len(window_chunks) : window_chunks[i].start_seconds = w}

\* the emitted window excerpts whose window covers second t
ChunksCovering(t) ==
    {i \in 1..Len(window_chunks) :
        /\ window_chunks[i].start_seconds <= t
        /\ t < window_chunks[i].start_seconds + window_seconds}

\* the starts every transcript of the model stays below
StartRange == 0..200

\* C5: chunk_by_time_window emits exactly one excerpt for every window start
\* k*step_seconds between 0 and the last spoken line's timestamp whose window
\* holds a spoken line, and no excerpt at any other start.
C5_WindowAtEveryStep ==
    (pc = "done" /\ entry = "chunk_by_time_window") =>
        /\ \A i \in 1..Len(window_chunks) :
               window_chunks[i].start_seconds \in StartRange
        /\ \A w \in StartRange :
               Cardinality(ChunksAt(w)) =
                   IF /\ SpokenLines # << >>
                      /\ w % step_seconds = 0
                      /\ w <= SecOf(SpokenLines[Len(SpokenLines)])
                      /\ \E i \in 1..Len(SpokenLines) :
                             /\ w <= SecOf(SpokenLines[i])
                             /\ SecOf(SpokenLines[i]) < w + window_seconds
                   THEN 1 ELSE 0

\* windows were emitted up to the last line's timestamp, one boundary in
\* between was skipped for having no line, and the last line's timestamp is
\* itself a boundary
C5_Witness ==
    /\ pc = "done" /\ entry = "chunk_by_time_window"
    /\ Len(window_chunks) >= 2
    /\ SpokenLines # << >>
    /\ SecOf(SpokenLines[Len(SpokenLines)]) % step_seconds = 0
    /\ ChunksAt(SecOf(SpokenLines[Len(SpokenLines)])) # {}
    /\ \E w \in StartRange :
           /\ w % step_seconds = 0
           /\ w < SecOf(SpokenLines[Len(SpokenLines)])
           /\ ChunksAt(w) = {}

\* spoken-line timestamps are non-negative and non-decreasing
OrderedTimestamps ==
    /\ \A i \in 1..Len(SpokenLines) : SecOf(SpokenLines[i]) >= 0
    /\ \A i, j \in 1..Len(SpokenLines) :
           i < j => SecOf(SpokenLines[i]) <= SecOf(SpokenLines[j])

\* C10: with window_seconds = 60 and step_seconds = 30 every spoken line of
\* any document lies inside at least two emitted window excerpts.
C10_EveryLineInTwoWindows ==
    (/\ pc = "done" /\ entry = "chunk_by_time_window"
     /\ window_seconds = 60 /\ step_seconds = 30
     /\ OrderedTimestamps) =>
        \A i \in 1..Len(SpokenLines) :
            Cardinality(ChunksCovering(SecOf(SpokenLines[i]))) >= 2

\* the document with spoken lines at seconds 10, 40, 70 and 100
ExampleTranscript ==
    <<[line |-> <<"10">>, sec |-> 10], [line |-> <<"40">>, sec |-> 40],
      [line |-> <<"70">>, sec |-> 70], [line |-> <<"100">>, sec |-> 100]>>

ExampleChunked ==
    /\ pc = "done" /\ entry = "chunk_by_time_window"
    /\ window_seconds = 60 /\ step_seconds = 30
    /\ transcript = ExampleTranscript

WindowStarts == [i \in 1..Len(window_chunks) |-> window_chunks[i].start_seconds]

WindowTexts == [i \in 1..Len(window_chunks) |-> window_chunks[i].text]

\* C12 as stated: with window 60 and step 30, lines at 10, 40, 70 and 100
\* give windows starting at 0, 30, 60, 90 that hold the lines (10, 40), (40),
\* (70) and (100).
C12_ExampleWindowsAsStated ==
    ExampleChunked =>
        /\ WindowStarts = <<0, 30, 60, 90>>
        /\ WindowTexts = << <<"10", " ", "40">>, <<"40">>, <<"70">>, <<"100">> >>

\* C12 amended: with window 60 and step 30, lines at 10, 40, 70 and 100 give
\* windows starting at 0, 30, 60, 90 that hold the lines (10, 40), (40, 70),
\* (70, 100) and (100): a window spans 60 seconds, so the windows at 30 and 60
\* also hold the line of the following step.
C12_ExampleWindowsOverlap ==
    ExampleChunked =>
        /\ WindowStarts = <<0, 30, 60, 90>>
        /\ WindowTexts = << <<"10", " ", "40">>, <<"40", " ", "70">>,
                            <<"70", " ", "100">>, <<"100">> >>

C12_Witness == ExampleChunked /\ Len(window_chunks) = 4

\* the spoken lines with w <= t < w + window_seconds, in transcript order
LinesWithin(w) ==
    SelectSeq(SpokenLines,
              LAMBDA l : w <= SecOf(l) /\ SecOf(l) < w + window_seconds)

\* C23: each window excerpt emitted for window start w contains exactly the
\* spoken lines whose timestamp t satisfies w <= t < w + window_seconds, in
\* transcript order, and has start_seconds equal to the window start w, a
\* multiple of step_seconds, not the first line's timestamp; section markers
\* have no effect: the output is that of the same transcript with all section
\* markers removed.
C23_WindowHoldsHalfOpenInterval ==
    (pc = "done" /\ entry = "chunk_by_time_window") =>
        /\ \A i \in 1..Len(window_chunks) :
               /\ window_chunks[i].start_seconds % step_seconds = 0
               /\ LinesWithin(window_chunks[i].start_seconds) # << >>
               /\ window_chunks[i].text =
                      CombinedText(LinesWithin(window_chunks[i].start_seconds))
        /\ window_chunks =
               chunk_by_time_window(SpokenLines, episode_meta, window_seconds,
                                    step_seconds)

\* with windows of 20 seconds every 10 seconds, a transcript with a section
\* marker and lines at 0, 10 and 40: the window at 10 leaves out the line at
\* 0, no window at 20 holds the line at 40, and the window at 30 holds the
\* line at 40 but starts at 30
C23_Witness ==
    /\ pc = "done" /\ entry = "chunk_by_time_window"
    /\ window_seconds = 20 /\ step_seconds = 10
    /\ \E p \in 1..Len(transcript) : "header" \in DOMAIN transcript[p]
    /\ [i \in 1..Len(SpokenLines) |-> SecOf(SpokenLines[i])] = <<0, 10, 40>>
    /\ WindowStarts = <<0, 10, 30, 40>>
    /\ WindowTexts = << <<"0", " ", "10">>, <<"10">>, <<"40">>, <<"40">> >>

\* C25: for a document whose spoken-line timestamps are non-negative and
\* non-decreasing, and with step_seconds <= window_seconds, every spoken line
\* is contained in at least one emitted window excerpt.
C25_NoLineLost ==
    (/\ pc = "done" /\ entry = "chunk_by_time_window"
     /\ OrderedTimestamps
     /\ step_seconds <= window_seconds) =>
        \A i \in 1..Len(SpokenLines) :
            \E c \in ChunksCovering(SecOf(SpokenLines[i])) :
                window_chunks[c].text =
                    CombinedText(LinesWithin(window_chunks[c].start_seconds))

\* three ordered lines, the last one on a window boundary, all of them kept
C25_Witness ==
    /\ pc = "done" /\ entry = "chunk_by_time_window"
    /\ OrderedTimestamps
    /\ step_seconds <= window_seconds
    /\ Len(SpokenLines) >= 3
    /\ SecOf(SpokenLines[1]) < SecOf(SpokenLines[Len(SpokenLines)])
    /\ SecOf(SpokenLines[Len(SpokenLines)]) % step_seconds = 0
    /\ \A i \in 1..Len(SpokenLines) :
           ChunksCovering(SecOf(SpokenLines[i])) # {}

-----------------------------------------------------------------------------
(* chunk_by_time_window with small steps, run to its return                *)

MaxStep == 3

MaxStepItems == 2

\* the timestamps of the lines
StepSecs == {0, 3, 7}

StepSpecItems ==
    {[line |-> <<ToString(t)>>, sec |-> t] : t \in StepSecs}
        \cup {[line |-> <<"hi">>], [header |-> "Topic"]}

InitWindowSteps ==
    /\ pc = "windows"
    /\ entry = "chunk_by_time_window"
    /\ transcript \in SeqsUpTo(StepSpecItems, MaxStepItems)
    /\ clip_lookup = << >>
    /\ episode_meta = [title |-> "AI in Healthcare", ids |-> [youtube |-> "V1"]]
    /\ window_seconds = 2
    /\ step_seconds \in 1..MaxStep
    /\ IdleHeaders /\ IdleWindows /\ IdleDedup /\ IdleLoad /\ IdleRag /\ IdleAsk
    /\ IdlePure /\ IdleStart /\ IdleChat

\* the function runs without interruption: a step that can be taken is taken
SpecWindowSteps ==
    InitWindowSteps /\ [][NextWindows]_vars /\ WF_vars(NextWindows)

\* floor(total_secs / step_seconds) + 1 for the last spoken line's timestamp
IterationsStated == SecOf(SpokenLines[Len(SpokenLines)]) \div step_seconds + 1

\* an iteration moves window_start up; without spoken lines the function
\* returns at once and empty
C26_Step ==
    /\ (pc = "window_loop" /\ pc' = "window_loop") =>
           window_start' > window_start
    /\ (pc = "windows" /\ SpokenLines = << >>) =>
           (pc' = "done" /\ window_chunks' = << >>)

\* C26: chunk_by_time_window terminates for every step_seconds >= 1:
\* window_start strictly increases each iteration and the loop ends after
\* exactly floor(total_secs / step_seconds) + 1 iterations, total_secs being
\* the last spoken line's timestamp; a transcript with no spoken lines
\* returns immediately with no windows.
C26_WindowLoopTerminates ==
    /\ <>(pc = "done")
    /\ [][C26_Step]_vars
    /\ [](pc = "done" =>
             IF SpokenLines = << >>
             THEN window_chunks = << >> /\ window_start = 0
             ELSE window_start = IterationsStated * step_seconds)

\* a run with step 1 that returned after 8 iterations for a last line at
\* second 7
C26_Witness ==
    /\ pc = "done" /\ entry = "chunk_by_time_window"
    /\ window_seconds = 2 /\ step_seconds = 1
    /\ SpokenLines # << >>
    /\ SecOf(SpokenLines[Len(SpokenLines)]) = 7
    /\ window_start = 8

-----------------------------------------------------------------------------
(* search_index.py: search; rag_pipeline.py: PodcastRAG.retrieve and ask   *)

\* the most documents one query matches in the model
MaxHits == 5

\* filter_dict as search() builds it: falsy arguments add no filter
FilterDict(video_id, season, chunk_type) ==
    [k \in {f \in {"video_id", "season", "chunk_type"} :
               \/ f = "video_id" /\ video_id # ""
               \/ f = "season" /\ season # ""
               \/ f = "chunk_type" /\ chunk_type # ""}
        |-> CASE k = "video_id" -> video_id
              [] k = "season" -> season
              [] k = "chunk_type" -> chunk_type]

\* a document passes the index's exact-match filters
Matches(doc, filter_dict) ==
    \A k \in DOMAIN filter_dict : k \in DOMAIN doc /\ doc[k] = filter_dict[k]

\* The rankings index.search() may return: any ranking of documents that pass
\* the filters, each document at most once.  The relevance order is opaque.
\* A positive num_results limits the length; what the library does with a
\* num_results below one is not fixed by the caller, so any length is possible.
IndexSearch(docs, filter_dict, num_results) ==
    {[i \in 1..Len(ranking) |-> docs[ranking[i]]] :
        ranking \in {s \in InjSeqsUpTo({i \in 1..Len(docs) :
                                          Matches(docs[i], filter_dict)},
                                      MaxHits) :
                        num_results >= 1 => Len(s) <= num_results}}

\* the index.search() call search() issues
SearchCall(video_id, season, chunk_type, k) ==
    [filter_dict |-> FilterDict(video_id, season, chunk_type),
     num_results |-> k]

\* a merge that starts each pair with the window result
ZipPairsWindowFirst(h, w) ==
    [i \in 1..(2 * Min(Len(h), Len(w))) |->
        IF i % 2 = 1 THEN w[(i + 1) \div 2] ELSE h[i \div 2]]

\* for h, w in zip(header_results, window_results): append h, append w
ZipPairs(h, w) ==
    [i \in 1..(2 * Min(Len(h), Len(w))) |->
        IF i % 2 = 1 THEN h[(i + 1) \div 2] ELSE w[i \div 2]]

\* the interleaving built in `merged`
Interleave(h, w) ==
    ZipPairs(h, w) \o SliceFrom(h, Len(w)) \o SliceFrom(w, Len(h))

\* unique[:self.top_k]
Truncate(results, k) == SliceTo(results, k)

\* a narrower gap than retrieve's
RetrieveMinGapShort == 30 - 10

\* deduplicate_results(merged, min_gap_seconds=30)
RetrieveMinGap == 30

\* PodcastRAG.retrieve: the two searches, the merge, the deduplication and the
\* truncation, as the values of the primed retrieval variables
RetrieveEffect ==
    /\ \E hr \in IndexSearch(index, FilterDict(q_video_id, q_season, "header"),
                             top_k) :
       \E wr \in IndexSearch(index, FilterDict(q_video_id, q_season, "window"),
                             top_k) :
           /\ header_results' = hr
           /\ window_results' = wr
           /\ merged' = Interleave(hr, wr)
    /\ index_calls' = index_calls
           \o <<SearchCall(q_video_id, q_season, "header", top_k),
                SearchCall(q_video_id, q_season, "window", top_k)>>
    /\ unique' = deduplicate_results(merged', RetrieveMinGap)
    /\ retrieved' = Truncate(unique', top_k)

\* a test that never takes the not-found branch
NoChunksNever(chunks) == FALSE

\* `if not chunks`
NoChunks(chunks) == chunks = << >>

\* where the run continues when ask returns
AfterAsk == IF entry = "ask" THEN "done" ELSE "chat"

\* PodcastRAG.ask: retrieve, then either the not-found message or the prompt
\* built from the retrieved chunks and the generated answer
Ask ==
    /\ pc = "ask"
    /\ RetrieveEffect
    /\ IF NoChunks(retrieved')
       THEN /\ answer' = "not_found"
            /\ prompt_chunks' = << >>
            /\ UNCHANGED generate_calls
       ELSE /\ prompt_chunks' = retrieved'
            /\ generate_calls' = generate_calls + 1
            /\ answer' = "generated"
    /\ pc' = AfterAsk
    /\ UNCHANGED <<entry, loadVars, docVars, headerVars, windowVars, ragVars,
                   q_video_id, q_season, dedupVars, pureVars,
                   startVars,
                   chatVars>>

-----------------------------------------------------------------------------
(* Indexed documents and questions of the retrieval specification          *)

MaxTopK == 5

\* top_k values, from a negative one up
TopKs == -1..MaxTopK

\* a segment as build_index receives it, reduced to the fields retrieval reads
Segment(type, vid, season, start) ==
    [chunk_type |-> type, video_id |-> vid, season |-> season,
     start_seconds |-> start, text |-> <<"hi">>,
     timestamp |-> seconds_to_timestamp(start),
     deep_link |-> WatchLink(vid, start)]

RetrievalIndex ==
    <<Segment("header", "V1", "8", 0),
      Segment("header", "V1", "8", 75),
      Segment("header", "V2", "9", 0),
      Segment("window", "V1", "8", 0),
      Segment("window", "V1", "8", 30),
      Segment("window", "V1", "8", 60),
      Segment("window", "V1", "8", 90),
      Segment("window", "V2", "9", 0)>>

\* an index of two header excerpts and one window excerpt of one video that
\* lie within 30 seconds of each other
ExampleIndex ==
    <<Segment("header", "V1", "8", 2139),
      Segment("header", "V1", "8", 2160),
      Segment("window", "V1", "8", 2150)>>

InitRetrieve ==
    /\ pc = "ask"
    /\ entry = "ask"
    /\ index \in {RetrievalIndex, ExampleIndex}
    /\ top_k \in TopKs
    /\ q_video_id \in {"", "V1"}
    /\ q_season \in {"", "8"}
    /\ index_calls = << >>
    /\ header_results = << >>
    /\ window_results = << >>
    /\ merged = << >>
    /\ unique = << >>
    /\ retrieved = << >>
    /\ prompt_chunks = << >>
    /\ generate_calls = 0
    /\ answer = "none"
    /\ IdleDoc /\ IdleHeaders /\ IdleWindows /\ DefaultWindowArgs /\ IdleDedup
    /\ IdleLoad /\ IdlePure /\ IdleStart /\ IdleChat

NextRetrieve == Ask

SpecRetrieve == InitRetrieve /\ [][NextRetrieve]_vars

\* the positions of x in the sequence s
Occurrences(s, x) == {i \in 1..Len(s) : s[i] = x}

\* C6: the merged list of retrieve has header result i at position 2i and
\* window result i at position 2i+1 (counting from 0) for every i below the
\* shorter length, then the remaining tail of the longer list in its order; its
\* length is the sum of the two lengths and every result occurs exactly once.
C6_InterleaveAlternatesThenTail ==
    (pc = "done" /\ entry = "ask") =>
        LET H == header_results
            W == window_results
            m == Min(Len(H), Len(W))
        IN  /\ Len(merged) = Len(H) + Len(W)
            /\ \A i \in 1..m : merged[2 * i - 1] = H[i] /\ merged[2 * i] = W[i]
            /\ SubSeq(merged, 2 * m + 1, Len(merged)) =
                   IF Len(H) > Len(W) THEN SubSeq(H, m + 1, Len(H))
                   ELSE SubSeq(W, m + 1, Len(W))
            /\ \A i \in 1..Len(H) : Cardinality(Occurrences(merged, H[i])) = 1
            /\ \A i \in 1..Len(W) : Cardinality(Occurrences(merged, W[i])) = 1

\* three header results and five window results were merged
C6_Witness ==
    /\ pc = "done" /\ entry = "ask"
    /\ Len(header_results) = 3
    /\ Len(window_results) = 5
    /\ Len(merged) = 8

\* C7: for every question, scope filter and top_k, retrieve returns at most
\* top_k excerpts, namely the first top_k entries of the deduplicated
\* interleaved list.
C7_AtMostTopK ==
    (pc = "done" /\ entry = "ask") =>
        /\ unique = deduplicate_results(Interleave(header_results,
                                                  window_results), 30)
        /\ Len(retrieved) <= Max(top_k, 0)
        /\ retrieved = SubSeq(unique, 1, Len(retrieved))
        /\ Len(retrieved) < Len(unique) => Len(retrieved) = Max(top_k, 0)

\* C8: when top_k <= 0 retrieve returns an empty list and issues no query
\* to the index.
C8_NoQueryWhenTopKNotPositive ==
    (pc = "done" /\ entry = "ask" /\ top_k <= 0) =>
        /\ retrieved = << >>
        /\ index_calls = << >>

\* C19: when the index returns no results for both the header and the window
\* query, retrieve returns an empty list without error and ask returns the
\* not-found message without invoking the generator.
C19_NoResultsNotFound ==
    (/\ pc = "done" /\ entry = "ask"
     /\ Len(index_calls) = 2
     /\ header_results = << >> /\ window_results = << >>) =>
        /\ retrieved = << >>
        /\ answer = "not_found"
        /\ generate_calls = 0
        /\ prompt_chunks = << >>

\* both queries were issued with a positive limit and matched nothing
C19_Witness ==
    /\ pc = "done" /\ entry = "ask"
    /\ Len(index_calls) = 2
    /\ top_k >= 1
    /\ header_results = << >> /\ window_results = << >>
    /\ answer = "not_found"

\* the index ranked the header excerpts 2139, 2160 and the window excerpt 2150
ExampleRetrieved ==
    /\ pc = "done" /\ entry = "ask"
    /\ header_results = <<ExampleIndex[1], ExampleIndex[2]>>
    /\ window_results = <<ExampleIndex[3]>>

\* the entries of merged ranked before position p that were kept
KeptBefore(p) == {j \in 1..(p - 1) : Occurrences(unique, merged[j]) # {}}

\* C13: with header results of "V1" at 2139 and 2160 (in that rank order) and
\* a window result of "V1" at 2150, interleaving and deduplicating with a gap
\* of 30 keeps exactly one of the two header entries, keeps entries in rank
\* order, and keeps the 2150 entry only if no earlier-ranked kept entry is
\* within 30 seconds of it.
C13_ExampleFusionKeepsOne ==
    ExampleRetrieved =>
        /\ Cardinality({i \in 1..Len(unique) :
                           unique[i] \in {ExampleIndex[1], ExampleIndex[2]}}) = 1
        /\ \A i, j \in 1..Len(unique) :
               i < j => \E a, b \in 1..Len(merged) :
                            a < b /\ merged[a] = unique[i] /\ merged[b] = unique[j]
        /\ \A p \in Occurrences(merged, ExampleIndex[3]) :
               Occurrences(unique, ExampleIndex[3]) # {} =>
                   \A j \in KeptBefore(p) :
                       Abs(merged[j].start_seconds - 2150) >= 30

\* the three results were fused and only the first-ranked one survived
C13_Witness ==
    /\ ExampleRetrieved
    /\ Len(merged) = 3
    /\ unique = <<ExampleIndex[1]>>

-----------------------------------------------------------------------------
(* md_parser.py: load_all_episodes, parse_md_file; chatbot.py: startup     *)

\* split_frontmatter raises ValueError on a file without YAML frontmatter
\* (a file without `data`); build_clip_lookup raises on a null startOffset
FileRaises(f) ==
    \/ "data" \notin DOMAIN f
    \/ /\ Get(f.data, "transcript", << >>) # << >>
       /\ ClipLookupRaises(Get(f.data, "quotableClips", << >>))

\* `if not transcript: return []`
NoTranscript(f) ==
    "data" \in DOMAIN f /\ Get(f.data, "transcript", << >>) = << >>

\* an except branch that does not record the file
RecordFailureDropped(failed_files, name) == failed_files

\* failed.append(md_file.name)
RecordFailure(failed_files, name) == Append(failed_files, name)

\* a concatenation that puts the window chunks first
AllChunksWindowsFirst(h, w) == w \o h

\* all_chunks = header_chunks + window_chunks
AllChunks(h, w) == h \o w

\* load_all_episodes up to the loop: a missing directory raises
\* FileNotFoundError, a directory without .md files raises ValueError
LoadStart ==
    /\ pc = "load"
    /\ IF ~episodes_dir_exists \/ md_files = << >>
       THEN pc' = "fatal"
       ELSE pc' = "load_loop"
    /\ file_idx' = 1
    /\ all_segments' = << >>
    /\ failed' = << >>
    /\ UNCHANGED <<entry, md_files, docVars, headerVars, windowVars, ragVars,
                   askVars, dedupVars, pureVars, startVars, chatVars>>

\* parse_md_file up to the call of chunk_by_headers.  A file that raises is
\* recorded in `failed` by the except branch of the loop; a document without
\* transcript returns no chunks.
ParseFile ==
    /\ pc = "load_loop"
    /\ file_idx <= Len(md_files)
    /\ LET f == md_files[file_idx]
       IN  IF FileRaises(f)
           THEN /\ failed' = RecordFailure(failed, f.name)
                /\ file_idx' = file_idx + 1
                /\ UNCHANGED <<pc, docVars, headerVars, window_seconds,
                               step_seconds>>
           ELSE IF NoTranscript(f)
           THEN /\ file_idx' = file_idx + 1
                /\ UNCHANGED <<pc, failed, docVars, headerVars, window_seconds,
                               step_seconds>>
           ELSE /\ transcript' = f.data.transcript
                /\ clip_lookup' =
                       build_clip_lookup(Get(f.data, "quotableClips", << >>))
                /\ episode_meta' = f.data
                /\ item_idx' = 1
                /\ current_header' = "Introduction"
                /\ current_lines' = << >>
                /\ current_start' = 0
                /\ header_chunks' = << >>
                /\ window_seconds' = 60
                /\ step_seconds' = 30
                /\ pc' = "headers"
                /\ UNCHANGED <<file_idx, failed>>
    /\ UNCHANGED <<entry, md_files, all_segments, lines, total_secs,
                   window_start, window_chunks, ragVars, askVars, dedupVars,
                   pureVars, startVars,
                   chatVars>>

\* parse_md_file returns header_chunks + window_chunks and the loop extends
\* all_segments with them
ParseReturn ==
    /\ pc = "parsed"
    /\ all_segments' = all_segments \o AllChunks(header_chunks, window_chunks)
    /\ file_idx' = file_idx + 1
    /\ pc' = "load_loop"
    /\ UNCHANGED <<entry, md_files, failed, docVars, headerVars, windowVars,
                   ragVars, askVars, dedupVars, pureVars, startVars,
                   chatVars>>

\* the end of the loop: `failed` is printed and all_segments alone is returned
LoadReturn ==
    /\ pc = "load_loop"
    /\ file_idx > Len(md_files)
    /\ load_return' = <<all_segments>>
    /\ pc' = "loaded"
    /\ UNCHANGED <<entry, loadVars, docVars, headerVars, windowVars, ragVars,
                   askVars, dedupVars, pureVars, episodes_dir_exists,
                   build_index_calls, chatVars>>

\* build_index(segments) followed by PodcastRAG(...), which raises without
\* GROQ_API_KEY.  What index.fit does with no documents is the library's: it
\* may raise.
BuildIndexAndRag(segs) ==
    /\ build_index_calls' = Append(build_index_calls, segs)
    /\ index' = segs
    /\ \E fit_ok \in {b \in BOOLEAN : segs # << >> => b} :
       \E has_api_key \in BOOLEAN :
           pc' = IF fit_ok /\ has_api_key THEN "ask" ELSE "no_rag"

\* startup after load_all_episodes: exit without segments, else build the
\* index and construct PodcastRAG.  The chat starts with
\* video_id_filter = None.
Startup ==
    /\ pc = "loaded"
    /\ entry = "startup"
    /\ IF load_return[1] = << >>
       THEN /\ pc' = "exit"
            /\ UNCHANGED <<index, build_index_calls>>
       ELSE BuildIndexAndRag(load_return[1])
    /\ UNCHANGED <<entry, loadVars, docVars, headerVars, windowVars, top_k,
                   askVars, dedupVars, pureVars, episodes_dir_exists,
                   load_return, chatVars>>

\* load_resources of the web interface after load_all_episodes: the index is
\* built from whatever was loaded
LoadResources ==
    /\ pc = "loaded"
    /\ entry = "load_resources"
    /\ BuildIndexAndRag(load_return[1])
    /\ UNCHANGED <<entry, loadVars, docVars, headerVars, windowVars, top_k,
                   askVars, dedupVars, pureVars, episodes_dir_exists,
                   load_return, chatVars>>

-----------------------------------------------------------------------------
(* The episode files of the whole-program specification                    *)

MaxFiles == 2

\* the files of the episodes directory in sorted order
EpisodeFiles ==
    <<[name |-> "a_broken.md"],
      [name |-> "b_no_transcript.md",
       data |-> [title |-> "Teaser", ids |-> [youtube |-> "V0"]]],
      [name |-> "c_blank.md",
       data |-> [title |-> "Silence", ids |-> [youtube |-> "V1"],
                 season |-> "8", episode |-> "3",
                 transcript |-> <<[line |-> <<" ">>, sec |-> 10]>>]],
      [name |-> "d_clip.md",
       data |-> [title |-> "AI in Healthcare", short |-> "ML Healthcare",
                 ids |-> [youtube |-> "V2"], season |-> "8", episode |-> "4",
                 quotableClips |->
                     <<[name |-> "Topic", startOffset |-> 75,
                        endOffset |-> 120]>>,
                 transcript |->
                     <<[header |-> "Topic"],
                       [line |-> <<"hi">>, sec |-> 70, who |-> "Stefan"]>>]],
      [name |-> "e_plain.md",
       data |-> [title |-> "Untitled",
                 quotableClips |->
                     <<[name |-> "Topic", startOffset |-> 35,
                        endOffset |-> 50,
                        url |-> <<"https://www.youtube.com/watch?v=V3&t=35">>]>>,
                 transcript |->
                     <<[line |-> <<"hi">>, sec |-> 5],
                       [header |-> "Topic"],
                       [line |-> <<"yo">>, sec |-> 40, who |-> "Alexey"]>>]],
      [name |-> "f_null_clip.md",
       data |-> [title |-> "Null Clip",
                 quotableClips |->
                     <<[name |-> "Topic", nulls |-> {"startOffset"}]>>,
                 transcript |-> <<[line |-> <<"hi">>, sec |-> 5]>>]]>>

Init ==
    /\ pc = "load"
    /\ entry \in {"startup", "load_resources"}
    /\ md_files \in {RestrictFrom(EpisodeFiles, K, 1) :
                        K \in {S \in SUBSET (1..Len(EpisodeFiles)) :
                                  Cardinality(S) <= MaxFiles}}
    /\ file_idx = 1
    /\ all_segments = << >>
    /\ failed = << >>
    /\ IdleDoc /\ IdleHeaders /\ IdleWindows /\ DefaultWindowArgs
    /\ episodes_dir_exists \in {b \in BOOLEAN : md_files # << >> => b}
    /\ load_return = << >>
    /\ build_index_calls = << >>
    /\ IdleRag /\ IdleAsk /\ IdleDedup /\ IdlePure /\ IdleChat

Next ==
    \/ LoadStart
    \/ ParseFile
    \/ HeaderItem
    \/ HeaderReturn
    \/ WindowEnter
    \/ WindowIter
    \/ WindowReturn
    \/ ParseReturn
    \/ LoadReturn
    \/ Startup
    \/ LoadResources
    \/ Ask

Spec == Init /\ [][Next]_vars

\* the seconds a timestamp of the model can stand for
TimestampRange == 0..200

\* "M:SS" for a non-negative number of seconds
ValidTimestamp(ts) == \E n \in TimestampRange : ts = seconds_to_timestamp(n)

\* C9: every excerpt retrieval passes on to prompt assembly carries a
\* non-empty text, a valid timestamp string and a non-empty deep link,
\* whatever the input documents.
C9_CitationsRenderable ==
    \A i \in 1..Len(prompt_chunks) :
        /\ prompt_chunks[i].text # << >>
        /\ ValidTimestamp(prompt_chunks[i].timestamp)
        /\ prompt_chunks[i].deep_link # << >>

\* the excerpts loaded from the document of file f
SegmentsOf(f) ==
    {i \in 1..Len(all_segments) :
        "data" \in DOMAIN f
            /\ all_segments[i].episode_title = Get(f.data, "title", "")}

\* the names of the files satisfying P, in directory order
NamesWhere(P(_)) ==
    LET sel == SelectSeq(md_files, P)
    IN  [i \in 1..Len(sel) |-> sel[i].name]

\* C16 as stated: a document that fails to parse or has no transcript content
\* is skipped, its identifier is recorded in the failed list, every remaining
\* document is still loaded, and the failure list is returned alongside the
\* excerpts.
C16_SkippedRecordedAndReturned ==
    pc = "loaded" =>
        /\ \A i \in 1..Len(md_files) :
               IF FileRaises(md_files[i]) \/ NoTranscript(md_files[i])
               THEN /\ SegmentsOf(md_files[i]) = {}
                    /\ \E k \in 1..Len(failed) : failed[k] = md_files[i].name
               ELSE SegmentsOf(md_files[i]) # {}
        /\ load_return = <<all_segments, failed>>

\* C16 amended: a document that fails to parse is skipped and its file name
\* recorded in the failed list; a document with no transcript content is
\* skipped without being recorded; every remaining document is still loaded;
\* the failure list is only reported, load_all_episodes returns the excerpts
\* alone.
C16_SkippedAndFailuresRecorded ==
    pc = "loaded" =>
        /\ \A i \in 1..Len(md_files) :
               IF FileRaises(md_files[i]) \/ NoTranscript(md_files[i])
               THEN SegmentsOf(md_files[i]) = {}
               ELSE SegmentsOf(md_files[i]) # {}
        /\ failed = NamesWhere(FileRaises)
        /\ load_return = <<all_segments>>

\* a file failed to parse and was recorded, and the document after it was
\* loaded
C16_Witness ==
    /\ pc = "loaded"
    /\ Len(md_files) = 2
    /\ failed = <<md_files[1].name>>
    /\ SegmentsOf(md_files[2]) # {}

\* the corpus load_all_episodes found or produced is empty
EmptyCorpus == md_files = << >> \/ all_segments = << >>

\* C17: an empty corpus (zero documents or zero excerpts) is fatal before any
\* index build on every startup path (startup and load_resources):
\* build_index is never invoked with an empty list, and loading is fatal in no
\* other case.
C17_EmptyCorpusFatalBeforeIndex ==
    /\ \A i \in 1..Len(build_index_calls) : build_index_calls[i] # << >>
    /\ (EmptyCorpus /\ pc \notin {"load", "load_loop", "headers", "windows",
                                   "window_loop", "parsed", "loaded"}) =>
           pc \in {"fatal", "exit"}
    /\ pc \in {"fatal", "exit"} => EmptyCorpus

\* the position in md_files of the document an excerpt came from
DocOf(seg) ==
    CHOOSE i \in 1..Len(md_files) :
        "data" \in DOMAIN md_files[i]
            /\ Get(md_files[i].data, "title", "") = seg.episode_title

\* C18: the flat excerpt list follows the document order; within one document
\* all header excerpts precede all window excerpts; excerpts of different
\* documents are never interleaved.
C18_DocumentOrderHeadersFirst ==
    \A i, j \in 1..Len(all_segments) :
        i < j =>
            /\ DocOf(all_segments[i]) <= DocOf(all_segments[j])
            /\ (/\ DocOf(all_segments[i]) = DocOf(all_segments[j])
                /\ all_segments[i].chunk_type = "window")
                   => all_segments[j].chunk_type = "window"

\* two documents were loaded, each with header and window excerpts
C18_Witness ==
    /\ pc = "loaded"
    /\ Len(md_files) = 2
    /\ \A d \in 1..2 : \A type \in {"header", "window"} :
           \E i \in SegmentsOf(md_files[d]) : all_segments[i].chunk_type = type

-----------------------------------------------------------------------------
(* chatbot.py: get_unique_episodes, select_episode, chat_loop              *)

\* str.lower() on one token
LowerTok(tok) ==
    CASE tok = "ALL" -> "all"
      [] tok = "Q" -> "q"
      [] tok = "Quit" -> "quit"
      [] OTHER -> tok

\* str.lower()
lower(s) == [i \in 1..Len(s) |-> LowerTok(s[i])]

\* a quit tuple without the single letter
QuitWordsNoLetter ==
    {<<"/", "quit">>, <<"/", "exit">>, <<"quit">>, <<"exit">>}

\* ("/quit", "/exit", "quit", "exit", "q")
QuitWords ==
    {<<"/", "quit">>, <<"/", "exit">>, <<"quit">>, <<"exit">>, <<"q">>}

\* cmd.startswith("/")
StartsWithSlash(cmd) == cmd # << >> /\ cmd[1] = "/"

\* the entry get_unique_episodes appends for a segment
EpisodeOf(seg) ==
    [video_id    |-> Get(seg, "video_id", ""),
     title       |-> Get(seg, "episode_title", "Unknown"),
     season      |-> Get(seg, "season", ""),
     episode_num |-> Get(seg, "episode_num", "")]

\* the loop over the segments: one entry per truthy video_id, first seen first
RECURSIVE EpisodeLoop(_, _, _)
EpisodeLoop(segs, i, seen) ==
    IF i > Len(segs) THEN << >>
    ELSE LET vid == Get(segs[i], "video_id", "")
         IN  IF vid # "" /\ vid \notin seen
             THEN <<EpisodeOf(segs[i])>>
                      \o EpisodeLoop(segs, i + 1, seen \cup {vid})
             ELSE EpisodeLoop(segs, i + 1, seen)

\* the sort key (season, episode_num), compared as tuples
KeyLess(a, b) ==
    \/ a.season < b.season
    \/ a.season = b.season /\ a.episode_num < b.episode_num

\* list.sort is stable: an entry goes behind the entries with an equal key
RECURSIVE InsertSorted(_, _)
InsertSorted(sorted, e) ==
    IF sorted = << >> THEN <<e>>
    ELSE IF KeyLess(e, Head(sorted)) THEN <<e>> \o sorted
    ELSE <<Head(sorted)>> \o InsertSorted(Tail(sorted), e)

RECURSIVE SortEpisodes(_, _)
SortEpisodes(eps, i) ==
    IF i = 0 THEN << >> ELSE InsertSorted(SortEpisodes(eps, i - 1), eps[i])

get_unique_episodes(segs) ==
    SortEpisodes(EpisodeLoop(segs, 1, {}), Len(EpisodeLoop(segs, 1, {})))

\* the integers int() can read from one token of the model
IntLiterals == -9..99

\* int(choice) does not raise ValueError
IsInt(choice) ==
    Len(choice) = 1 /\ \E n \in IntLiterals : ToString(n) = choice[1]

IntOf(choice) == CHOOSE n \in IntLiterals : ToString(n) = choice[1]

\* select_episode given the line its input() read: a video_id, or "" for None
select_episode(segs, line) ==
    LET choice   == strip(line)
        episodes == get_unique_episodes(segs)
    IN  IF choice = << >> THEN ""
        ELSE IF ~IsInt(choice) THEN ""
        ELSE IF 0 <= IntOf(choice) - 1 /\ IntOf(choice) - 1 < Len(episodes)
             THEN episodes[IntOf(choice)].video_id
             ELSE ""

\* a question asked without the scope filter
QuestionScopeAll(filter) == ""

\* video_id = video_id_filter in the call of rag.ask
QuestionScope(filter) == filter

\* input("You: ") has a line to read
HasInput == stdin_pos <= Len(stdin)

\* user_input = input("You: ").strip() and cmd = user_input.lower()
UserInput == strip(stdin[stdin_pos])

Cmd == lower(UserInput)

\* the variables an iteration that only consumes its line leaves alone
ChatOnlyReads ==
    /\ stdin_pos' = stdin_pos + 1
    /\ UNCHANGED <<pc, entry, loadVars, docVars, headerVars, windowVars,
                   ragVars, askVars, dedupVars, pureVars, startVars, stdin>>

\* EOFError (or KeyboardInterrupt) at the prompt: goodbye, break
ChatEOF ==
    /\ pc = "chat"
    /\ ~HasInput
    /\ pc' = "chat_done"
    /\ UNCHANGED <<entry, loadVars, docVars, headerVars, windowVars, ragVars,
                   askVars, dedupVars, pureVars, startVars, chatVars>>

\* `if not user_input: continue`
ChatEmpty ==
    /\ pc = "chat"
    /\ HasInput
    /\ UserInput = << >>
    /\ ChatOnlyReads
    /\ UNCHANGED <<video_id_filter, debug_mode>>

ChatQuit ==
    /\ pc = "chat"
    /\ HasInput
    /\ UserInput # << >>
    /\ Cmd \in QuitWords
    /\ pc' = "chat_done"
    /\ stdin_pos' = stdin_pos + 1
    /\ UNCHANGED <<entry, loadVars, docVars, headerVars, windowVars, ragVars,
                   askVars, dedupVars, pureVars, startVars, stdin,
                   video_id_filter, debug_mode>>

ChatList ==
    /\ pc = "chat"
    /\ HasInput
    /\ Cmd = <<"/", "list">>
    /\ ChatOnlyReads
    /\ UNCHANGED <<video_id_filter, debug_mode>>

\* /episode: select_episode reads one more line; its input() is outside the
\* try of the loop, so an EOFError there ends chat_loop with the exception
ChatEpisode ==
    /\ pc = "chat"
    /\ HasInput
    /\ Cmd = <<"/", "episode">>
    /\ IF stdin_pos + 1 <= Len(stdin)
       THEN /\ video_id_filter' =
                   select_episode(load_return[1], stdin[stdin_pos + 1])
            /\ stdin_pos' = stdin_pos + 2
            /\ UNCHANGED pc
       ELSE /\ pc' = "chat_raised"
            /\ stdin_pos' = stdin_pos + 1
            /\ UNCHANGED video_id_filter
    /\ UNCHANGED <<entry, loadVars, docVars, headerVars, windowVars, ragVars,
                   askVars, dedupVars, pureVars, startVars, stdin, debug_mode>>

ChatAll ==
    /\ pc = "chat"
    /\ HasInput
    /\ Cmd = <<"/", "all">>
    /\ video_id_filter' = ""
    /\ ChatOnlyReads
    /\ UNCHANGED debug_mode

ChatDebug ==
    /\ pc = "chat"
    /\ HasInput
    /\ Cmd = <<"/", "debug">>
    /\ debug_mode' = ~debug_mode
    /\ ChatOnlyReads
    /\ UNCHANGED video_id_filter

\* any other input that starts with "/"
ChatUnknown ==
    /\ pc = "chat"
    /\ HasInput
    /\ Cmd \notin QuitWords
    /\ Cmd \notin {<<"/", "list">>, <<"/", "episode">>, <<"/", "all">>,
                    <<"/", "debug">>}
    /\ StartsWithSlash(Cmd)
    /\ ChatOnlyReads
    /\ UNCHANGED <<video_id_filter, debug_mode>>

\* a question: the iteration up to the call of rag.ask
ChatQuestion ==
    /\ pc = "chat"
    /\ HasInput
    /\ UserInput # << >>
    /\ Cmd \notin QuitWords
    /\ ~StartsWithSlash(Cmd)
    /\ q_video_id' = QuestionScope(video_id_filter)
    /\ q_season' = ""
    /\ pc' = "ask"
    /\ stdin_pos' = stdin_pos + 1
    /\ UNCHANGED <<entry, loadVars, docVars, headerVars, windowVars, ragVars,
                   index_calls, header_results, window_results, merged, unique,
                   retrieved, prompt_chunks, generate_calls, answer, dedupVars,
                   pureVars, startVars, stdin, video_id_filter, debug_mode>>

-----------------------------------------------------------------------------
(* Terminal sessions of the chat specification                             *)

MaxInputs == 3

\* the segments handed to chat_loop: two episodes, the later one seen first
ChatSegments ==
    <<[chunk_type |-> "header", video_id |-> "V2", season |-> 9,
       episode_num |-> 1, episode_title |-> "Data Teams",
       start_seconds |-> 0, text |-> <<"hi">>,
       timestamp |-> seconds_to_timestamp(0), deep_link |-> WatchLink("V2", 0)],
      [chunk_type |-> "header", video_id |-> "V1", season |-> 8,
       episode_num |-> 4, episode_title |-> "AI in Healthcare",
       start_seconds |-> 0, text |-> <<"hi">>,
       timestamp |-> seconds_to_timestamp(0), deep_link |-> WatchLink("V1", 0)]>>

\* the lines a user may type
ChatInputs ==
    {<< >>, <<"hello">>, <<"1">>, <<"7">>,
     <<"/", "list">>, <<"/", "episode">>, <<"/", "all">>, <<" ", "/", "ALL">>,
     <<"/", "debug">>, <<"/", "foo">>, <<"/", "quit">>, <<"Q">>}

InitChat ==
    /\ pc = "chat"
    /\ entry = "chat_loop"
    /\ stdin \in SeqsUpTo(ChatInputs, MaxInputs)
    /\ stdin_pos = 1
    /\ video_id_filter = ""
    /\ debug_mode = FALSE
    /\ index = ChatSegments
    /\ top_k = 5
    /\ episodes_dir_exists = TRUE
    /\ load_return = <<ChatSegments>>
    /\ build_index_calls = <<ChatSegments>>
    /\ IdleDoc /\ IdleHeaders /\ IdleWindows /\ DefaultWindowArgs /\ IdleDedup
    /\ IdleLoad /\ IdleAsk /\ IdlePure

NextChat ==
    \/ ChatEOF
    \/ ChatEmpty
    \/ ChatQuit
    \/ ChatList
    \/ ChatEpisode
    \/ ChatAll
    \/ ChatDebug
    \/ ChatUnknown
    \/ ChatQuestion
    \/ Ask

SpecChat == InitChat /\ [][NextChat]_vars

\* what the user typed at the "You:" prompt, by kind
AllLines == {<<"/", "all">>, <<" ", "/", "ALL">>}

QuitLines == {<<"/", "quit">>, <<"Q">>}

QuestionLines == {<<"hello">>, <<"1">>, <<"7">>}

\* the line the next iteration of the loop reads
NextLine == stdin[stdin_pos]

AtPrompt == pc = "chat" /\ stdin_pos <= Len(stdin)

\* the video_id filters of the queries a step issued
NewQueryScopes ==
    {Get(index_calls'[k].filter_dict, "video_id", "") :
        k \in (Len(index_calls) + 1)..Len(index_calls')}

C21_Step ==
    /\ (pc = "chat" /\ stdin_pos = 1) => video_id_filter = ""
    /\ (pc = "chat" /\ pc' = "ask") => q_video_id' = video_id_filter
    /\ pc = "ask" => NewQueryScopes = {video_id_filter}
    /\ video_id_filter' # video_id_filter =>
           AtPrompt /\ NextLine \in AllLines \cup {<<"/", "episode">>}
    /\ (AtPrompt /\ NextLine \in AllLines) => video_id_filter' = ""
    /\ (AtPrompt /\ NextLine = <<"/", "episode">> /\ pc' = "chat") =>
           video_id_filter' =
               IF stdin[stdin_pos + 1] = <<"1">> THEN "V1" ELSE ""
    /\ (AtPrompt /\ NextLine = <<"/", "debug">>) =>
           /\ debug_mode' = ~debug_mode
           /\ UNCHANGED <<pc, entry, loadVars, docVars, headerVars, windowVars,
                          ragVars, askVars, dedupVars, pureVars, startVars,
                          stdin, video_id_filter>>
    /\ debug_mode' # debug_mode => AtPrompt /\ NextLine = <<"/", "debug">>

\* C21: in chat_loop the search scope starts as all episodes; every question
\* is asked with the video-id filter set by the most recent /episode or /all;
\* /all always resets the filter; /list, /debug, empty input and unknown
\* slash commands leave the filter unchanged; /debug flips the debug flag and
\* nothing else.
C21_ChatScopeFrame == [][C21_Step]_vars

\* an episode was selected, debug was not touched, and a question was asked
\* within that episode
C21_Witness ==
    /\ entry = "chat_loop" /\ pc = "chat"
    /\ video_id_filter = "V1"
    /\ Len(index_calls) = 2
    /\ Get(index_calls[1].filter_dict, "video_id", "") = "V1"

\* the "You:" lines among stdin[i..n-1]: 1 for a question, 0 for any other
\* line; the line after /episode is read by select_episode; nothing is read
\* after a quit word
RECURSIVE QuestionsRead(_, _)
QuestionsRead(i, n) ==
    IF i >= n THEN 0
    ELSE IF stdin[i] \in QuitLines THEN 0
    ELSE IF stdin[i] = <<"/", "episode">> THEN QuestionsRead(i + 2, n)
    ELSE (IF stdin[i] \in QuestionLines THEN 1 ELSE 0) + QuestionsRead(i + 1, n)

\* the position of the first quit word typed at the "You:" prompt, or 0
RECURSIVE FirstQuit(_)
FirstQuit(i) ==
    IF i > Len(stdin) THEN 0
    ELSE IF stdin[i] \in QuitLines THEN i
    ELSE IF stdin[i] = <<"/", "episode">> THEN FirstQuit(i + 2)
    ELSE FirstQuit(i + 1)

\* C27: in chat_loop rag.ask is invoked exactly once per non-empty input that
\* is not a quit word and does not start with "/", and never for /list,
\* /episode, /all, /debug, unknown slash commands or empty input; after a quit
\* command or end-of-input the loop stops and no further input is processed.
C27_AskOncePerQuestion ==
    entry = "chat_loop" =>
        /\ pc # "ask" =>
               /\ Len(index_calls) = 2 * QuestionsRead(1, stdin_pos)
               /\ generate_calls <= QuestionsRead(1, stdin_pos)
        /\ pc = "ask" =>
               Len(index_calls) = 2 * (QuestionsRead(1, stdin_pos) - 1)
        /\ FirstQuit(1) # 0 => stdin_pos <= FirstQuit(1) + 1
        /\ (FirstQuit(1) # 0 /\ stdin_pos = FirstQuit(1) + 1) =>
               pc = "chat_done"
        /\ stdin_pos <= Len(stdin) + 1
        /\ pc = "chat_done" =>
               \/ FirstQuit(1) # 0 /\ stdin_pos = FirstQuit(1) + 1
               \/ stdin_pos = Len(stdin) + 1

\* a command, a question and a quit word were typed: one call of ask, and the
\* loop stopped
C27_Witness ==
    /\ entry = "chat_loop" /\ pc = "chat_done"
    /\ stdin = << <<"/", "debug">>, <<"hello">>, <<"Q">> >>
    /\ Len(index_calls) = 2

-----------------------------------------------------------------------------
(* Inputs of the deduplication specification                               *)

MaxResults == 3
MaxStartIdx == 2
MaxGapIdx == 2

VideoIds == {"V1", "V2"}

StartSeconds == {15 * k : k \in 0..MaxStartIdx}

\* includes the default 30, zero and a negative gap
MinGaps == {15 * k : k \in -1..MaxGapIdx}

\* ranked results as the loop sees them; one result lacks both keys
DedupResults ==
    {[video_id |-> v, start_seconds |-> s] : v \in VideoIds, s \in StartSeconds}
        \cup {[chunk_type |-> "window"]}

InitDedup ==
    /\ pc = "dedup"
    /\ entry = "deduplicate_results"
    /\ IdleDoc /\ IdleHeaders /\ IdleWindows /\ DefaultWindowArgs
    /\ IdleLoad /\ IdleRag /\ IdleAsk /\ IdlePure /\ IdleStart /\ IdleChat
    /\ d_results \in SeqsUpTo(DedupResults, MaxResults)
    /\ d_min_gap \in MinGaps
    /\ d_unique = << >>
    /\ d_again = << >>

CallDedup ==
    /\ pc = "dedup"
    /\ d_unique' = deduplicate_results(d_results, d_min_gap)
    /\ pc' = "dedup_once"
    /\ UNCHANGED <<d_results, d_min_gap, d_again>>
    /\ UNCHANGED <<entry, loadVars, docVars, headerVars, windowVars, ragVars,
                   askVars, pureVars, startVars,
                   chatVars>>

CallDedupAgain ==
    /\ pc = "dedup_once"
    /\ d_again' = deduplicate_results(d_unique, d_min_gap)
    /\ pc' = "dedup_twice"
    /\ UNCHANGED <<d_results, d_min_gap, d_unique>>
    /\ UNCHANGED <<entry, loadVars, docVars, headerVars, windowVars, ragVars,
                   askVars, pureVars, startVars,
                   chatVars>>

NextDedup == CallDedup \/ CallDedupAgain

SpecDedup == InitDedup /\ [][NextDedup]_vars

\* two results of the same video closer than the gap
Near(a, b, gap) ==
    /\ ResultKey(a)[1] = ResultKey(b)[1]
    /\ Abs(ResultKey(a)[2] - ResultKey(b)[2]) < gap

\* C1: after deduplicate_results no two kept results of the same video_id
\* start less than min_gap_seconds apart; a candidate is dropped exactly when
\* an earlier-ranked kept result of the same video_id is within the gap; every
\* kept result stays in the output (a dropped candidate neither replaces nor
\* removes one), so results of different video_id never eliminate each other.
C1_DedupKeepsFirstInRegion ==
    pc \in {"dedup_once", "dedup_twice"} =>
        /\ \A i, j \in 1..Len(d_unique) :
               i < j => ~Near(d_unique[i], d_unique[j], d_min_gap)
        /\ \E K \in SUBSET (1..Len(d_results)) :
               /\ \A i \in 1..Len(d_results) :
                      i \notin K <=>
                          \E j \in K : j < i /\ Near(d_results[j], d_results[i],
                                                     d_min_gap)
               /\ d_unique = RestrictFrom(d_results, K, 1)

\* a later candidate was dropped, and two results at the same start but of
\* different videos were both kept
C1_Witness ==
    /\ pc = "dedup_once"
    /\ Len(d_unique) < Len(d_results)
    /\ \E i, j \in 1..Len(d_unique) :
           /\ i < j
           /\ ResultKey(d_unique[i])[1] \in VideoIds
           /\ ResultKey(d_unique[j])[1] \in VideoIds
           /\ ResultKey(d_unique[i])[1] # ResultKey(d_unique[j])[1]
           /\ ResultKey(d_unique[i])[2] = ResultKey(d_unique[j])[2]
    /\ d_min_gap = 30

\* C2: deduplicate_results applied to its own output returns that output.
C2_DedupIdempotent ==
    pc = "dedup_twice" => d_again = d_unique

\* the first call dropped something and kept two near-but-not-adjacent results
C2_Witness ==
    /\ pc = "dedup_twice"
    /\ Len(d_unique) < Len(d_results)
    /\ Len(d_again) >= 2
    /\ d_min_gap = 30

\* C3: the output of deduplicate_results is a subsequence of its input: the
\* kept results in their input order, nothing added and nothing reordered.
C3_DedupSubsequence ==
    pc \in {"dedup_once", "dedup_twice"} =>
        \E K \in SUBSET (1..Len(d_results)) :
            d_unique = RestrictFrom(d_results, K, 1)

\* a result in the middle was dropped and the two around it were kept
C3_Witness ==
    /\ pc = "dedup_once"
    /\ Len(d_results) = 3
    /\ d_unique = <<d_results[1], d_results[3]>>
    /\ d_results[1] # d_results[3]
    /\ d_results[2] # d_results[1]

====
